---- MODULE Spec2Model ----
(***************************************************************************)
(* Model of src/Header.js: the two styled components StyledHeader and      *)
(* StyledH1, the function component Header, and the stylelint runs the     *)
(* accompanying README records against the style text of that file.        *)
(***************************************************************************)
EXTENDS Integers, Sequences, FiniteSets, TLC

\* Bound on the number of Header invocations recorded in one behaviour.
MaxCalls == 3

(***************************************************************************)
(* Text helpers.  Source text is a sequence of one-character strings so    *)
(* that line/column positions and units are computed from the text.        *)
(***************************************************************************)
RECURSIVE Join(_)
Join(cs) == IF cs = <<>> THEN "" ELSE Head(cs) \o Join(Tail(cs))

Digits == {"0", "1", "2", "3", "4", "5", "6", "7", "8", "9", "."}

\* Smallest index i >= from with line[i] = ch, or Len(line) + 1.
RECURSIVE IndexOf(_, _, _)
IndexOf(line, ch, from) ==
    IF from > Len(line) THEN Len(line) + 1
    ELSE IF line[from] = ch THEN from
    ELSE IndexOf(line, ch, from + 1)

\* Smallest index i >= from with line[i] not a space, or Len(line) + 1.
RECURSIVE SkipSpaces(_, _)
SkipSpaces(line, from) ==
    IF from > Len(line) THEN Len(line) + 1
    ELSE IF line[from] # " " THEN from
    ELSE SkipSpaces(line, from + 1)

\* Smallest index i >= from with line[i] not a digit or dot, or Len + 1.
RECURSIVE SkipNumber(_, _)
SkipNumber(cs, from) ==
    IF from > Len(cs) THEN Len(cs) + 1
    ELSE IF cs[from] \notin Digits THEN from
    ELSE SkipNumber(cs, from + 1)

(***************************************************************************)
(* The style text of Header.js, lines 5-9 and line 13, as written.         *)
(***************************************************************************)
\* Variant: the outer style text without its display rule.
StyledHeaderCssNoFlex ==
    << <<" ", " ", "w", "i", "d", "t", "h", ":", " ", "1", "0", "0", "%", ";">>,
       <<" ", " ", "m", "i", "n", "-", "h", "e", "i", "g", "h", "t", ":", " ",
         "1", "0", "0", "v", "h", ";">>,
       <<" ", " ", "a", "l", "i", "g", "n", "-", "i", "t", "e", "m", "s", ":",
         " ", "c", "e", "n", "t", "e", "r", ";">>,
       <<" ", " ", "j", "u", "s", "t", "i", "f", "y", "-", "c", "o", "n", "t",
         "e", "n", "t", ":", " ", "c", "e", "n", "t", "e", "r", ";">> >>

StyledHeaderFirstLine == 5
StyledHeaderCss ==
    << <<" ", " ", "w", "i", "d", "t", "h", ":", " ", "1", "0", "0", "%", ";">>,
       <<" ", " ", "m", "i", "n", "-", "h", "e", "i", "g", "h", "t", ":", " ",
         "1", "0", "0", "v", "h", ";">>,
       <<" ", " ", "a", "l", "i", "g", "n", "-", "i", "t", "e", "m", "s", ":",
         " ", "c", "e", "n", "t", "e", "r", ";">>,
       <<" ", " ", "d", "i", "s", "p", "l", "a", "y", ":", " ", "f", "l", "e",
         "x", ";">>,
       <<" ", " ", "j", "u", "s", "t", "i", "f", "y", "-", "c", "o", "n", "t",
         "e", "n", "t", ":", " ", "c", "e", "n", "t", "e", "r", ";">> >>

\* Variant: line 13 written without the space after the colon.
StyledH1CssNoSpace(unit) ==
    << <<" ", " ", "f", "o", "n", "t", "-", "s", "i", "z", "e", ":", "2">>
       \o unit \o <<";">> >>

StyledH1FirstLine == 13
\* Line 13 with the unit of the font-size value as a parameter; the file
\* as written has the unit "re".
StyledH1CssWith(unit) ==
    << <<" ", " ", "f", "o", "n", "t", "-", "s", "i", "z", "e", ":", " ", "2">>
       \o unit \o <<";">> >>
StyledH1Css == StyledH1CssWith(<<"r", "e">>)

(***************************************************************************)
(* A declaration of a style text line: property, value, and positions.     *)
(***************************************************************************)
ParseDeclaration(line, lineNo) ==
    LET start  == SkipSpaces(line, 1)
        colon  == IndexOf(line, ":", start)
        vstart == SkipSpaces(line, colon + 1)
        semi   == IndexOf(line, ";", vstart)
        value  == SubSeq(line, vstart, semi - 1)
        ustart == SkipNumber(value, 1)
    IN  [ prop   |-> Join(SubSeq(line, start, colon - 1)),
          value  |-> Join(value),
          unit   |-> IF ustart > 1 THEN Join(SubSeq(value, ustart, Len(value)))
                     ELSE "",
          line   |-> lineNo,
          col    |-> start,
          vcol   |-> vstart ]

Declarations(css, firstLine) ==
    [ i \in 1..Len(css) |-> ParseDeclaration(css[i], firstLine + i - 1) ]

\* The style descriptor of a style text: its property/value rules.
StyleRules(css) ==
    { [prop |-> d.prop, value |-> d.value] :
        d \in { Declarations(css, 1)[i] : i \in 1..Len(css) } }

(***************************************************************************)
(* styled.header`...` and styled.h1`...`: a component is its tag and its   *)
(* style text; the text is kept as written, not validated.                 *)
(***************************************************************************)
Styled(tag, css) == [tag |-> tag, css |-> css]

(***************************************************************************)
(* Content values and props objects a caller passes.                       *)
(***************************************************************************)
Undefined == [kind |-> "undefined"]
Text(s)   == [kind |-> "text", text |-> s]
Span(c)   == [kind |-> "element", tag |-> "span", children |-> c]

Contents == { Undefined, Text("Hello"), Text(""), Span(Text("Hello")) }

\* Props objects: children plus other properties a caller may set.
OtherProps == { <<>>, [className |-> "big", id |-> "top"] }

PropsOf(c, other) ==
    [ k \in (DOMAIN other) \cup (IF c = Undefined THEN {} ELSE {"children"})
        |-> IF k = "children" THEN c ELSE other[k] ]

AllProps == { PropsOf(c, o) : c \in Contents, o \in OtherProps }

\* props.children: a property read; undefined when the key is absent.
Children(props) ==
    IF "children" \in DOMAIN props THEN props["children"] ELSE Undefined

(***************************************************************************)
(* JSX: <Type>{child}</Type> is an element of that type whose props hold   *)
(* only the child.                                                         *)
(***************************************************************************)
Element(type, child) == [type |-> type, props |-> [children |-> child]]

VARIABLES
    styledHeader,  \* module binding StyledHeader (Header.js line 4)
    styledH1,      \* module binding StyledH1 (Header.js line 12)
    pc,            \* "idle", or "called" while Header runs
    props,         \* the props object of the latest invocation
    calls,         \* invocations so far: props, outcome and returned value
    rc,            \* .stylelintrc: the rules set to null
    runs           \* stylelint runs so far: rc, unit on line 13, diagnostics

vars == <<styledHeader, styledH1, pc, props, calls, rc, runs>>

\* Variant: absent content is replaced by an empty text (props.children || "").
HeaderCoercing(p) ==
    [ status |-> "returned",
      value  |-> Element(styledHeader,
                    Element(styledH1,
                        IF Children(p) = Undefined THEN Text("")
                        ELSE Children(p))) ]

\* Variant: the inner h1 container is left out.
HeaderFlat(p) ==
    [ status |-> "returned",
      value  |-> Element(styledHeader, Children(p)) ]

\* Variant: a hidden counter of earlier invocations ends up in the output.
HeaderCounting(p) ==
    [ status |-> "returned",
      value  |-> [ type  |-> styledHeader,
                   props |-> [children |-> Element(styledH1, Children(p))],
                   key   |-> Len(calls) ] ]

\* Variant: absent content is dereferenced and the invocation throws.
HeaderThrowing(p) ==
    IF "children" \in DOMAIN p
    THEN [ status |-> "returned",
           value  |-> Element(styledHeader, Element(styledH1, Children(p))) ]
    ELSE [ status |-> "threw", value |-> Undefined ]

\* Variant: the props are spread onto the outer container.
HeaderForwarding(p) ==
    [ status |-> "returned",
      value  |-> [ type  |-> styledHeader,
                   props |-> [ k \in (DOMAIN p) \cup {"children"} |->
                                 IF k = "children"
                                 THEN Element(styledH1, Children(p))
                                 ELSE p[k] ] ] ]

\* Header = (props) => <StyledHeader><StyledH1>{props.children}</StyledH1></StyledHeader>
Header(p) ==
    [ status |-> "returned",
      value  |-> Element(styledHeader, Element(styledH1, Children(p))) ]

(***************************************************************************)
(* stylelint as the README records it: stylelint-config-standard, run on   *)
(* the template literals of src/header.js, diagnostics in file positions.  *)
(***************************************************************************)
KnownUnits == {"%", "vh", "px", "em", "rem"}

\* The unit written on line 13, and the valid units it may be corrected to.
LintUnits == { <<"r", "e">>, <<"r", "e", "m">>, <<"p", "x">>, <<"e", "m">> }

Template(firstLine, css) == [firstLine |-> firstLine, css |-> css]

HeaderJs(unit) ==
    { Template(StyledHeaderFirstLine, StyledHeaderCss),
      Template(StyledH1FirstLine, StyledH1CssWith(unit)) }

Diagnostic(line, col, rule, text) ==
    [line |-> line, col |-> col, rule |-> rule, text |-> text]

\* Unexpected unknown unit "..." at the position of the value.
UnitNoUnknown(t) ==
    LET ds == Declarations(t.css, t.firstLine)
    IN  { Diagnostic(ds[i].line, ds[i].vcol, "unit-no-unknown", ds[i].unit) :
            i \in { j \in 1..Len(t.css) :
                      ds[j].unit # "" /\ ds[j].unit \notin KnownUnits } }

\* Expected empty line before declaration: the first declaration of a
\* template follows neither an empty line nor another declaration.
DeclarationEmptyLineBefore(t) ==
    LET ds == Declarations(t.css, t.firstLine)
    IN  { Diagnostic(ds[i].line, ds[i].col, "declaration-empty-line-before", "") :
            i \in { j \in 1..Len(t.css) : j = 1 } }

\* The templates of header.js close on a line of their own (lines 10, 14),
\* so their text ends with a newline and is not empty.
NoMissingEndOfSourceNewline(t) == {}

NoEmptySource(t) ==
    IF Len(t.css) = 0
    THEN { Diagnostic(t.firstLine, 1, "no-empty-source", "") }
    ELSE {}

StandardRules ==
    { "unit-no-unknown", "declaration-empty-line-before",
      "no-missing-end-of-source-newline", "no-empty-source" }

Rule(name, t) ==
    CASE name = "unit-no-unknown" -> UnitNoUnknown(t)
      [] name = "declaration-empty-line-before" -> DeclarationEmptyLineBefore(t)
      [] name = "no-missing-end-of-source-newline" -> NoMissingEndOfSourceNewline(t)
      [] name = "no-empty-source" -> NoEmptySource(t)

\* .stylelintrc "rules": the three rules set to null.
RuleOverrides ==
    { "no-empty-source", "declaration-empty-line-before",
      "no-missing-end-of-source-newline" }

\* Variant: any "rules" entry turns the whole base rule set off.
StylelintRulesReplaceBase(nulled, templates) ==
    IF nulled = {} THEN UNION { Rule(r, t) : r \in StandardRules, t \in templates }
    ELSE {}

\* A rule set to null is turned off; every other rule of the base set runs.
Stylelint(nulled, templates) ==
    UNION { Rule(r, t) : r \in StandardRules \ nulled, t \in templates }

(***************************************************************************)
(* The state machine.                                                      *)
(***************************************************************************)
Init ==
    /\ styledHeader = Styled("header", StyledHeaderCss)
    /\ styledH1 = Styled("h1", StyledH1Css)
    /\ pc = "idle"
    /\ props = <<>>
    /\ calls = <<>>
    /\ rc = {}
    /\ runs = {}

\* A caller renders <Header {...p} />: Header is entered with props p.
Render(p) ==
    /\ pc = "idle"
    /\ Len(calls) < MaxCalls
    /\ props' = p
    /\ pc' = "called"
    /\ UNCHANGED <<styledHeader, styledH1, calls, rc, runs>>

\* Variant: the body deletes every property but children from its props.
HeaderReturnMutating ==
    /\ pc = "called"
    /\ calls' = Append(calls, [ props |-> props,
                                status |-> Header(props).status,
                                value |-> Header(props).value ])
    /\ props' = [ k \in (DOMAIN props) \cap {"children"} |-> props[k] ]
    /\ pc' = "idle"
    /\ UNCHANGED <<styledHeader, styledH1, rc, runs>>

\* The body of Header runs and returns.
HeaderReturn ==
    /\ pc = "called"
    /\ calls' = Append(calls, [ props |-> props,
                                status |-> Header(props).status,
                                value |-> Header(props).value ])
    /\ pc' = "idle"
    /\ UNCHANGED <<styledHeader, styledH1, props, rc, runs>>

\* The rule overrides are added to .stylelintrc.
AddRuleOverrides ==
    /\ rc = {}
    /\ rc' = RuleOverrides
    /\ UNCHANGED <<styledHeader, styledH1, pc, props, calls, runs>>

\* yarn lint:css on header.js, with line 13 as written or corrected.
LintCss(unit) ==
    /\ runs' = runs \cup { [ rc |-> rc, unit |-> Join(unit),
                              diags |-> Stylelint(rc, HeaderJs(unit)) ] }
    /\ UNCHANGED <<styledHeader, styledH1, pc, props, calls, rc>>

\* Rendering: callers invoke Header.
NextHeader ==
    \/ \E p \in AllProps : Render(p)
    \/ HeaderReturn

\* Linting: the README's stylelint runs on header.js.
NextLint ==
    \/ AddRuleOverrides
    \/ \E u \in LintUnits : LintCss(u)

Next == NextHeader \/ NextLint

Spec == Init /\ [][Next]_vars

\* The two parts share no variable; each is also checked on its own.
SpecHeader == Init /\ [][NextHeader]_vars

SpecLint == Init /\ [][NextLint]_vars

(***************************************************************************)
(* Properties.                                                             *)
(***************************************************************************)
Call(i) == calls[i]
Outer(i) == calls[i].value
Inner(i) == calls[i].value.props["children"]
Slot(i) == Inner(i).props["children"]
CallIds == 1..Len(calls)

\* C1: for every content value c, Header invoked with children = c returns
\* a structure whose innermost slot (the child of the inner h1 container)
\* is exactly c; with no content the slot is empty, with the text "Hello"
\* the slot is exactly "Hello".
C1_SlotIsContent ==
    \A i \in CallIds :
        /\ "children" \in DOMAIN Call(i).props
              => Slot(i) = Call(i).props["children"]
        /\ "children" \notin DOMAIN Call(i).props => Slot(i) = Undefined
        /\ Call(i).props = [children |-> Text("Hello")]
              => Slot(i) = [kind |-> "text", text |-> "Hello"]

C1_Witness ==
    /\ \E i \in CallIds : Call(i).props = [children |-> Text("Hello")]
    /\ \E i \in CallIds : "children" \notin DOMAIN Call(i).props
    /\ \E i \in CallIds : Slot(i) = Span(Text("Hello"))

\* C2: for every content value, the returned structure has exactly two
\* nested container levels: an outer header container (StyledHeader) whose
\* only child is one inner h1 container (StyledH1), whose only child slot
\* is the content; number and kind of levels do not depend on the content.
C2_TwoLevels ==
    \A i \in CallIds :
        /\ DOMAIN Outer(i) = {"type", "props"}
        /\ Outer(i).type = styledHeader
        /\ Outer(i).type.tag = "header"
        /\ DOMAIN Inner(i) = {"type", "props"}
        /\ Inner(i).type = styledH1
        /\ Inner(i).type.tag = "h1"
        /\ Slot(i) \in Contents

C2_Witness ==
    /\ \E i \in CallIds : Slot(i).kind = "element"
    /\ \E i \in CallIds : Slot(i).kind = "text"
    /\ \E i \in CallIds : Slot(i).kind = "undefined"

\* C3: Header keeps no state between invocations: whatever was invoked
\* earlier, two invocations with the same content return structurally
\* identical output.
C3_Deterministic ==
    \A i, j \in CallIds :
        Children(Call(i).props) = Children(Call(j).props)
            => Call(i).value = Call(j).value

C3_Witness ==
    /\ Len(calls) >= 3
    /\ Children(Call(1).props) = Children(Call(3).props)
    /\ Children(Call(2).props) # Children(Call(1).props)

\* C4: the outer container's style descriptor is the same for every
\* invocation and consists of width: 100%, full viewport height
\* (min-height: 100vh), display: flex, align-items: center and
\* justify-content: center; the inner container's descriptor is a single
\* font-size rule.
C4_StyleDescriptors ==
    \A i \in CallIds :
        /\ StyleRules(Outer(i).type.css) =
              { [prop |-> "width", value |-> "100%"],
                [prop |-> "min-height", value |-> "100vh"],
                [prop |-> "display", value |-> "flex"],
                [prop |-> "align-items", value |-> "center"],
                [prop |-> "justify-content", value |-> "center"] }
        /\ Cardinality(StyleRules(Inner(i).type.css)) = 1
        /\ \A r \in StyleRules(Inner(i).type.css) : r.prop = "font-size"

C4_Witness ==
    /\ Len(calls) >= 2
    /\ Outer(1).type.css = Outer(2).type.css
    /\ Len(Outer(1).type.css) = 5

\* C5: invoking Header has no error outcome: for every content value,
\* absent content included, and although the inner style text holds the
\* malformed value "2re", the invocation returns the two-level structure.
C5_NoError ==
    \A i \in CallIds :
        /\ Call(i).status = "returned"
        /\ Outer(i).type.tag = "header"
        /\ Inner(i).type.tag = "h1"
        /\ \E r \in StyleRules(Inner(i).type.css) : r.value = "2re"

C5_Witness ==
    \E i \in CallIds :
        /\ "children" \notin DOMAIN Call(i).props
        /\ Call(i).status = "returned"

TheDiagnostic == Diagnostic(13, 14, "unit-no-unknown", "re")

\* C6: linting the Header style text under the standard rule set with
\* no-empty-source, declaration-empty-line-before and
\* no-missing-end-of-source-newline disabled reports exactly one
\* diagnostic, unit-no-unknown for the unit "re" at line 13, column 14;
\* with the unit corrected to a valid unit such as "rem" it reports none.
C6_LintOverrides ==
    \A r \in runs :
        r.rc = { "no-empty-source", "declaration-empty-line-before",
                 "no-missing-end-of-source-newline" }
          => /\ r.unit = "re" => r.diags = {TheDiagnostic}
             /\ r.unit = "rem" => r.diags = {}
             /\ r.unit \in KnownUnits => r.diags = {}

C6_Witness ==
    /\ \E r \in runs : r.rc # {} /\ r.unit = "re" /\ r.diags # {}
    /\ \E r \in runs : r.rc # {} /\ r.unit = "rem"

\* C7: invoking Header leaves its inputs and definitions unchanged: the
\* props (and so the content) are the same after the call as before it,
\* and the bindings StyledHeader and StyledH1 are never changed, so both
\* style descriptors stay as at definition time.
C7_Frame ==
    [][ /\ styledHeader' = styledHeader
        /\ styledH1' = styledH1
        /\ pc = "called" => props' = props ]_vars

C7_Witness ==
    /\ pc = "idle"
    /\ Len(calls) >= 1
    /\ props = Call(Len(calls)).props
    /\ "children" \in DOMAIN props
    /\ styledH1 = Styled("h1", StyledH1Css)

\* C8: Header's output depends only on props.children: two props objects
\* with the same children and different other properties give structurally
\* identical output, and no property other than children reaches the outer
\* or the inner container.
C8_OnlyChildren ==
    /\ \A i, j \in CallIds :
          ( /\ Call(i).props # Call(j).props
            /\ Children(Call(i).props) = Children(Call(j).props) )
              => Outer(i) = Outer(j)
    /\ \A i \in CallIds :
          /\ DOMAIN Outer(i).props = {"children"}
          /\ DOMAIN Inner(i).props = {"children"}

C8_Witness ==
    \E i, j \in CallIds :
        /\ "className" \in DOMAIN Call(i).props
        /\ "className" \notin DOMAIN Call(j).props
        /\ Children(Call(i).props) = Children(Call(j).props)

====
